---- MODULE Spec2Model ----
(***************************************************************************)
(* A model of the cross-file-id crate: file identities (FileId), the       *)
(* resource-owning Handle<F>, the platform identity extractors and the     *)
(* is_same_file convenience call.                                          *)
(*                                                                         *)
(* The operating system is modelled by a table of OS file resources        *)
(* (descriptors / handles), each referring to a file of a fixed little     *)
(* file system, and by a log of the OS calls the crate issues.             *)
(***************************************************************************)
EXTENDS Integers, Sequences, FiniteSets, TLC

VARIABLES platform, res, handles, owned, ret, log, call, ids

vars == <<platform, res, handles, owned, ret, log, call, ids>>

(***************************************************************************)
(* Bounds of the model.                                                    *)
(***************************************************************************)
\* number of descriptors beyond the three standard streams
MaxFiles == 2
\* number of Handle values alive at once
MaxHandles == 2
\* largest device / volume serial number of an identity drawn for comparison
MaxDev == 1
\* largest inode number of an identity drawn for comparison
MaxIno == 1
\* number of bytes of a FILE_ID_128 identifier in the model (16 in the OS)
IdLen == 2

\* the byte values identifiers drawn for comparison are built from
ByteVals == {0, 255}

Platforms == {"unix", "windows"}

(***************************************************************************)
(* The file system the tests of lib.rs build: a file a, a hard link and a  *)
(* symbolic link to it, a second file b, a directory d with a symbolic     *)
(* link, a named pipe and a path that does not exist.                      *)
(***************************************************************************)
Paths == {"a", "alink", "asoft", "b", "d", "dsoft", "pipe", "missing"}

NoFile == "none"

\* the file a path resolves to when it is opened following links
Resolve(p) ==
    CASE p \in {"a", "alink", "asoft"} -> "A"
      [] p = "b" -> "B"
      [] p \in {"d", "dsoft"} -> "D"
      [] p = "pipe" -> "P"
      [] OTHER -> NoFile

IsDir(f) == f = "D"

\* what GetFileType answers for a handle on the file
FileType(f) ==
    CASE f = "tty" -> "FILE_TYPE_CHAR"
      [] f = "P" -> "FILE_TYPE_PIPE"
      [] OTHER -> "FILE_TYPE_DISK"

\* the (st_dev, st_ino) pair fstat reports: distinct for distinct live files
UnixIdOf(f) ==
    CASE f = "A" -> [dev |-> 0, ino |-> 1]
      [] f = "B" -> [dev |-> 1, ino |-> 1]
      [] f = "D" -> [dev |-> 0, ino |-> 2]
      [] f = "P" -> [dev |-> 1, ino |-> 0]
      [] OTHER -> [dev |-> 2, ino |-> 0]

\* an identifier of IdLen bytes: first byte hi, last byte lo, zeros between
Identifier128(hi, lo) ==
    [k \in 1..IdLen |-> IF k = 1 THEN hi ELSE IF k = IdLen THEN lo ELSE 0]

\* the FILE_ID_INFO the per-handle query reports
WinIdOf(f) ==
    CASE f = "A" -> [VolumeSerialNumber |-> 0, Identifier |-> Identifier128(0, 1)]
      [] f = "B" -> [VolumeSerialNumber |-> 1, Identifier |-> Identifier128(0, 1)]
      [] f = "D" -> [VolumeSerialNumber |-> 0, Identifier |-> Identifier128(1, 0)]
      [] f = "P" -> [VolumeSerialNumber |-> 1, Identifier |-> Identifier128(0, 0)]
      [] OTHER -> [VolumeSerialNumber |-> 2, Identifier |-> Identifier128(0, 0)]

IdentityOf(plat, f) == IF plat = "unix" THEN UnixIdOf(f) ELSE WinIdOf(f)

(***************************************************************************)
(* Identity values: equality and ordering.                                 *)
(***************************************************************************)
IntCmp(x, y) == IF x < y THEN "Less" ELSE IF x = y THEN "Equal" ELSE "Greater"

\* Ordering::then_with
ThenWith(first, second) == IF first = "Equal" THEN second ELSE first

\* [u8; 16]::cmp: the first differing byte decides
RECURSIVE BytesCmp(_, _, _)
BytesCmp(a, b, i) ==
    IF i > Len(a) THEN "Equal"
    ELSE ThenWith(IntCmp(a[i], b[i]), BytesCmp(a, b, i + 1))

compare_file_id_128(a, b) == BytesCmp(a, b, 1)

\* win.rs: Ord for FileId
WinCmp(a, b) ==
    ThenWith(IntCmp(a.VolumeSerialNumber, b.VolumeSerialNumber),
             compare_file_id_128(a.Identifier, b.Identifier))

\* an equality that forgets the volume serial number
WinEqIdentifierOnly(a, b) ==
    \A i \in 1..Len(a.Identifier) : a.Identifier[i] = b.Identifier[i]

\* win.rs: derived PartialEq of FileId, field by field, byte by byte
WinEq(a, b) ==
    /\ a.VolumeSerialNumber = b.VolumeSerialNumber
    /\ \A i \in 1..Len(a.Identifier) : a.Identifier[i] = b.Identifier[i]

\* an ordering that takes the inode as the primary key
UnixCmpInoFirst(a, b) == ThenWith(IntCmp(a.ino, b.ino), IntCmp(a.dev, b.dev))

\* unix.rs: derived Ord of FileIdentity, fields in declaration order
UnixCmp(a, b) == ThenWith(IntCmp(a.dev, b.dev), IntCmp(a.ino, b.ino))

\* an equality that forgets the device
UnixEqInoOnly(a, b) == a.ino = b.ino

\* unix.rs: derived PartialEq of FileIdentity
UnixEq(a, b) == a.dev = b.dev /\ a.ino = b.ino

\* lib.rs: derived PartialEq / Ord of the FileId wrapper delegate to imp
FileIdEq(plat, a, b) == IF plat = "unix" THEN UnixEq(a, b) ELSE WinEq(a, b)

FileIdCmp(plat, a, b) == IF plat = "unix" THEN UnixCmp(a, b) ELSE WinCmp(a, b)

\* the Hasher the caller supplies: a deterministic function of the sequence
\* of values written to it, kept to 16 bits
RECURSIVE HasherFinish(_, _, _)
HasherFinish(feed, i, acc) ==
    IF i > Len(feed) THEN acc
    ELSE HasherFinish(feed, i + 1, (acc * 31 + feed[i] + 1) % 65536)

\* unix.rs: derived Hash of FileIdentity writes dev, then ino
UnixHashFeed(a) == <<a.dev, a.ino>>

\* win.rs: Hash for FileId: write_u64(VolumeSerialNumber), then
\* write(&Identifier), the bytes one after the other
WinHashFeed(a) == <<a.VolumeSerialNumber>> \o a.Identifier

\* lib.rs: derived Hash of the FileId wrapper delegates to imp
FileIdHash(plat, a) ==
    HasherFinish(IF plat = "unix" THEN UnixHashFeed(a) ELSE WinHashFeed(a), 1, 0)

\* a comparison of the wrapped descriptors instead of the stored identities
HandleEqByDescriptor(plat, h1, h2) == h1.r = h2.r

\* lib.rs: PartialEq<Handle<F2>> for Handle<F1>
HandleEq(plat, h1, h2) == FileIdEq(plat, h1.identity, h2.identity)

\* an ordering of the wrapped descriptors instead of the stored identities
HandleCmpByDescriptor(plat, h1, h2) == IntCmp(h1.r, h2.r)

\* lib.rs: PartialOrd / Ord for Handle
HandleCmp(plat, h1, h2) == FileIdCmp(plat, h1.identity, h2.identity)

(***************************************************************************)
(* OS file resources.  Descriptors 0, 1, 2 are the standard streams; a     *)
(* closed descriptor number is handed out again by a later open.           *)
(***************************************************************************)
Fds == 0..(2 + MaxFiles)

StdFds == {0, 1, 2}

\* stdin and stdout are the terminal, stderr is redirected to the file b
StdFile(fd) == IF fd = 2 THEN "B" ELSE "tty"

Unused == [file |-> NoFile, open |-> FALSE, closes |-> 0]

InitRes == [r \in Fds |-> IF r \in StdFds
                           THEN [file |-> StdFile(r), open |-> TRUE,
                                 closes |-> 0]
                           ELSE Unused]

FreeFds(rt) == {r \in Fds \ StdFds : ~rt[r].open}

LowestFree(rt) == CHOOSE r \in FreeFds(rt) : \A q \in FreeFds(rt) : r <= q

NoErr == [kind |-> "none", detail |-> "none"]

OsErr(kind, detail) == [kind |-> kind, detail |-> detail]

\* one entry of the log: an OS call (or a comparison) and how it ended
Entry(op, path, r, err) == [op |-> op, path |-> path, r |-> r, err |-> err]

OsCalls == {"open", "close", "fstat", "GetFileType",
            "GetFileInformationByHandleEx"}

\* close(2) / CloseHandle on a resource, counting the closes it has seen
OsClose(st, r) ==
    [rt |-> [st.rt EXCEPT ![r] = [Unused EXCEPT
                 !.closes = IF st.rt[r].closes < 2 THEN st.rt[r].closes + 1
                            ELSE st.rt[r].closes]],
     log |-> Append(st.log, Entry("close", "-", r, NoErr))]

\* std::fs::File::open(p): read-only, following links
FileOpen(plat, st, p) ==
    LET f == Resolve(p)
        e == IF f = NoFile THEN OsErr("NotFound", p)
             ELSE IF IsDir(f) /\ plat = "windows"
                  THEN OsErr("PermissionDenied", p)
             ELSE NoErr
        r == IF e = NoErr THEN LowestFree(st.rt) ELSE -1
    IN  [st |-> [rt |-> IF e = NoErr
                        THEN [st.rt EXCEPT ![r] = [file |-> f, open |-> TRUE,
                                                   closes |-> 0]]
                        ELSE st.rt,
                 log |-> Append(st.log, Entry("open", p, r, e))],
         ok |-> e = NoErr, r |-> r, err |-> e]

(***************************************************************************)
(* The platform identity extractors.  qok is the answer of the OS to the   *)
(* metadata query: it is the environment's, not the crate's.               *)
(***************************************************************************)
\* File::into_raw_fd: gives the descriptor up without closing it
IntoRawFd(st, r) == st

\* dropping a std::fs::File closes its descriptor
DropFile(st, r) == OsClose(st, r)

\* unix.rs: FileIdentity::from_metadata
from_metadata(f) == UnixIdOf(f)

\* a from_os_file that applies ? to the metadata while temp_file is alive:
\* on Err temp_file is dropped, and the caller's descriptor closed with it
from_os_file_try(st, r, qok) ==
    LET good == qok /\ st.rt[r].open
        e == IF good THEN NoErr ELSE OsErr("Os", "fstat")
        st1 == [st EXCEPT !.log = Append(@, Entry("fstat", "-", r, e))]
    IN  [st |-> IF good THEN IntoRawFd(st1, r) ELSE DropFile(st1, r),
         ok |-> good, err |-> e, id |-> from_metadata(st.rt[r].file)]

\* unix.rs: FileIdentity::from_os_file
from_os_file(st, r, qok) ==
    LET good == qok /\ st.rt[r].open
        e == IF good THEN NoErr ELSE OsErr("Os", "fstat")
        \* temp_file = File::from_raw_fd(fd); result = temp_file.metadata()
        st1 == [st EXCEPT !.log = Append(@, Entry("fstat", "-", r, e))]
        \* let _ = temp_file.into_raw_fd()
        st2 == IntoRawFd(st1, r)
    IN  [st |-> st2, ok |-> good, err |-> e,
         id |-> from_metadata(st.rt[r].file)]

\* a from_filelike that issues the identifier query before it looks at the
\* type of the handle
from_filelike_query_first(st, r, qok) ==
    LET ftype == IF st.rt[r].open THEN FileType(st.rt[r].file)
                 ELSE "FILE_TYPE_UNKNOWN"
        good == qok /\ st.rt[r].open
        e == IF good THEN NoErr ELSE OsErr("Os", "GetFileInformationByHandleEx")
        st1 == [st EXCEPT !.log =
                   Append(@, Entry("GetFileInformationByHandleEx", "-", r, e))]
        te == IF ftype # "FILE_TYPE_DISK" THEN OsErr("InvalidData", ftype)
              ELSE NoErr
        st2 == [st1 EXCEPT !.log = Append(@, Entry("GetFileType", "-", r, te))]
    IN  IF ~good
        THEN [st |-> st1, ok |-> FALSE, err |-> e, id |-> WinIdOf(NoFile)]
        ELSE IF ftype # "FILE_TYPE_DISK"
        THEN [st |-> st2, ok |-> FALSE, err |-> te, id |-> WinIdOf(NoFile)]
        ELSE [st |-> st2, ok |-> TRUE, err |-> NoErr,
              id |-> WinIdOf(st.rt[r].file)]

\* win.rs: FileId::from_filelike
from_filelike(st, r, qok) ==
    LET ftype == IF st.rt[r].open THEN FileType(st.rt[r].file)
                 ELSE "FILE_TYPE_UNKNOWN"
        te == IF ftype # "FILE_TYPE_DISK" THEN OsErr("InvalidData", ftype)
              ELSE NoErr
        st1 == [st EXCEPT !.log = Append(@, Entry("GetFileType", "-", r, te))]
        good == qok /\ st.rt[r].open
        e == IF good THEN NoErr ELSE OsErr("Os", "GetFileInformationByHandleEx")
        st2 == [st1 EXCEPT !.log =
                   Append(@, Entry("GetFileInformationByHandleEx", "-", r, e))]
    IN  IF ftype # "FILE_TYPE_DISK"
        THEN [st |-> st1, ok |-> FALSE, err |-> te,
              id |-> WinIdOf(NoFile)]
        ELSE [st |-> st2, ok |-> good, err |-> e,
              id |-> WinIdOf(st.rt[r].file)]

\* lib.rs: FileId::from_raw, through the platform module
from_raw(plat, st, r, qok) ==
    IF plat = "unix" THEN from_os_file(st, r, qok)
    ELSE from_filelike(st, r, qok)

(***************************************************************************)
(* Handle<F>.  A file-like value F is a kind and the descriptor it names;  *)
(* only a File owns its descriptor.                                        *)
(***************************************************************************)
Kinds == {"File", "Stdin", "Stdout", "Stderr"}

FileLike(kind, r) == [kind |-> kind, r |-> r]

\* dropping a file-like value: a File closes, the standard streams do not
DropFileLike(st, f) == IF f.kind = "File" THEN DropFile(st, f.r) ELSE st

NoHandle == [kind |-> "none", r |-> -1, identity |-> [dev |-> -1, ino |-> -1],
             is_std |-> FALSE]

\* the value Handle { handle: f, identity: id }
MkHandle(f, id) ==
    [kind |-> f.kind, r |-> f.r, identity |-> id, is_std |-> FALSE]

\* a from_file_like that leaks the file-like value when extraction fails
from_file_like_leak(plat, st, f, qok) ==
    LET x == from_raw(plat, st, f.r, qok)
    IN  IF x.ok
        THEN [st |-> x.st, ok |-> TRUE, err |-> NoErr,
              h |-> MkHandle(f, x.id)]
        ELSE [st |-> x.st, ok |-> FALSE, err |-> x.err, h |-> NoHandle]

\* a from_file_like that makes a Handle whatever the extractor answers
from_file_like_lenient(plat, st, f, qok) ==
    LET x == from_raw(plat, st, f.r, qok)
    IN  [st |-> x.st, ok |-> TRUE, err |-> NoErr, h |-> MkHandle(f, x.id)]

\* lib.rs: Handle::from_file_like
from_file_like(plat, st, f, qok) ==
    LET x == from_raw(plat, st, f.r, qok)
    IN  IF x.ok
        THEN [st |-> x.st, ok |-> TRUE, err |-> NoErr,
              h |-> MkHandle(f, x.id)]
        ELSE [st |-> DropFileLike(x.st, f), ok |-> FALSE, err |-> x.err,
              h |-> NoHandle]

\* lib.rs: Handle::from_path
from_path(plat, st, p, qok) ==
    LET o == FileOpen(plat, st, p)
    IN  IF o.ok
        THEN from_file_like(plat, o.st, FileLike("File", o.r), qok)
        ELSE [st |-> o.st, ok |-> FALSE, err |-> o.err, h |-> NoHandle]

\* dropping a Handle<F> drops its field handle: F
DropHandle(st, h) == DropFileLike(st, FileLike(h.kind, h.r))

(***************************************************************************)
(* is_same_file(path1, path2):                                             *)
(*     Ok(Handle::from_path(path1)? == Handle::from_path(path2)?)          *)
(* as the steps Open(path1), Open(path2), Compare, Return.  The two        *)
(* handles are temporaries: they live to the end of the statement and are  *)
(* dropped in the reverse order of their creation.                         *)
(***************************************************************************)
NoResult == [ok |-> FALSE, val |-> FALSE, err |-> NoErr]

Ok(v) == [ok |-> TRUE, val |-> v, err |-> NoErr]

Err(e) == [ok |-> FALSE, val |-> FALSE, err |-> e]

IdleCall == [pc |-> "idle", p1 |-> "-", p2 |-> "-", h1 |-> NoHandle,
             h2 |-> NoHandle, result |-> NoResult]

St == [rt |-> res, log |-> log]

\* the caller invokes is_same_file(p1, p2)
Call(p1, p2) ==
    /\ call.pc = "idle"
    /\ call' = [IdleCall EXCEPT !.pc = "open1", !.p1 = p1, !.p2 = p2]
    /\ log' = <<>>
    /\ UNCHANGED <<platform, res, handles, owned, ret, ids>>

\* an is_same_file that builds both handles before it looks at the first
Open1Eager(qok) ==
    /\ call.pc = "open1"
    /\ LET x == from_path(platform, St, call.p1, qok)
       IN  /\ res' = x.st.rt
           /\ log' = x.st.log
           /\ call' = IF x.ok
                      THEN [call EXCEPT !.pc = "open2", !.h1 = x.h]
                      ELSE [call EXCEPT !.pc = "open2", !.result = Err(x.err)]
    /\ UNCHANGED <<platform, handles, owned, ret, ids>>

\* Handle::from_path(path1)?
Open1(qok) ==
    /\ call.pc = "open1"
    /\ LET x == from_path(platform, St, call.p1, qok)
       IN  /\ res' = x.st.rt
           /\ log' = x.st.log
           /\ call' = IF x.ok
                      THEN [call EXCEPT !.pc = "open2", !.h1 = x.h]
                      ELSE [call EXCEPT !.pc = "done", !.result = Err(x.err)]
    /\ UNCHANGED <<platform, handles, owned, ret, ids>>

\* Handle::from_path(path2)?  On Err the first handle is dropped on the way out
Open2(qok) ==
    /\ call.pc = "open2"
    /\ LET x == from_path(platform, St, call.p2, qok)
           out == IF x.ok THEN x.st ELSE DropHandle(x.st, call.h1)
       IN  /\ res' = out.rt
           /\ log' = out.log
           /\ call' = IF x.ok
                      THEN [call EXCEPT !.pc = "compare", !.h2 = x.h]
                      ELSE [call EXCEPT !.pc = "done", !.h1 = NoHandle,
                                        !.result = Err(x.err)]
    /\ UNCHANGED <<platform, handles, owned, ret, ids>>

\* h1 == h2
Compare ==
    /\ call.pc = "compare"
    /\ call' = [call EXCEPT !.pc = "drop",
                            !.result = Ok(HandleEq(platform, call.h1, call.h2))]
    /\ log' = Append(log, Entry("eq", "-", -1, NoErr))
    /\ UNCHANGED <<platform, res, handles, owned, ret, ids>>

\* the end of the statement: the temporaries are dropped, the second first
Return ==
    /\ call.pc = "drop"
    /\ LET out == DropHandle(DropHandle(St, call.h2), call.h1)
       IN  /\ res' = out.rt
           /\ log' = out.log
    /\ call' = [call EXCEPT !.pc = "done", !.h1 = NoHandle, !.h2 = NoHandle]
    /\ UNCHANGED <<platform, handles, owned, ret, ids>>

\* the caller takes the result
Finish ==
    /\ call.pc = "done"
    /\ call' = IdleCall
    /\ UNCHANGED <<platform, res, handles, owned, ret, log, ids>>

HandleIds == 1..MaxHandles

\* what the last operation on handles was and what it returned
NoRet == [op |-> "none", h |-> 0, h2 |-> 0, kind |-> "none", r |-> -1,
          ok |-> FALSE, err |-> NoErr, id |-> NoHandle.identity,
          eq |-> FALSE, ord |-> "none"]

NoIds == <<>>

InitCommon ==
    /\ platform \in Platforms
    /\ res = InitRes
    /\ handles = [h \in HandleIds |-> NoHandle]
    /\ owned = {}
    /\ ret = NoRet
    /\ log = <<>>
    /\ call = IdleCall

InitCall == InitCommon /\ ids = NoIds

NextCall ==
    \/ \E p1, p2 \in Paths : Call(p1, p2)
    \/ \E qok \in BOOLEAN : Open1(qok)
    \/ \E qok \in BOOLEAN : Open2(qok)
    \/ Compare
    \/ Return
    \/ Finish

SpecCall == InitCall /\ [][NextCall]_vars

(***************************************************************************)
(* The Handle in unix.rs: { file: Option<File>, is_std, id }.  r = -1      *)
(* stands for file = None.                                                 *)
(***************************************************************************)
ImpHandle(r, id, is_std) ==
    [kind |-> "Imp", r |-> r, identity |-> id, is_std |-> is_std]

\* unix.rs: Handle::from_file
imp_from_file(st, r, qok) ==
    LET good == qok /\ st.rt[r].open
        e == IF good THEN NoErr ELSE OsErr("Os", "fstat")
        st1 == [st EXCEPT !.log = Append(@, Entry("fstat", "-", r, e))]
    IN  IF good
        THEN [st |-> st1, ok |-> TRUE, err |-> NoErr,
              h |-> ImpHandle(r, from_metadata(st.rt[r].file), FALSE)]
        ELSE [st |-> DropFile(st1, r), ok |-> FALSE, err |-> e,
              h |-> NoHandle]

\* unix.rs: Handle::from_std, with stdin / stdout / stderr passing
\* File::from_raw_fd(0 / 1 / 2)
imp_from_std(st, fd, qok) ==
    LET x == imp_from_file(st, fd, qok)
    IN  IF x.ok THEN [x EXCEPT !.h.is_std = TRUE] ELSE x

\* a hash that also writes the descriptor of the wrapped File
imp_hash_with_fd(h) == HasherFinish(UnixHashFeed(h.identity) \o <<h.r>>, 1, 0)

\* unix.rs: Hash for Handle: self.id.hash(state)
imp_hash(h) == HasherFinish(UnixHashFeed(h.identity), 1, 0)

\* unix.rs: PartialEq for Handle: self.id == other.id
imp_eq(h1, h2) == UnixEq(h1.identity, h2.identity)

\* unix.rs: the unwrap() in Drop for Handle panics when is_std is set and
\* file is None
imp_drop_panics(h) == h.is_std /\ h.r = -1

\* the error value that stands for a panic of the thread
Panic == OsErr("panic", "unwrap on None")

\* a Drop that lets the File of a standard stream be dropped like any other
imp_drop_closing(st, h) == IF h.r # -1 THEN DropFile(st, h.r) ELSE st

\* unix.rs: Drop for Handle, then the drop of its fields
imp_drop(st, h) ==
    IF h.is_std
    THEN \* self.file.take().unwrap().into_raw_fd(); file is None afterwards
         IntoRawFd(st, h.r)
    ELSE IF h.r # -1 THEN DropFile(st, h.r) ELSE st

(***************************************************************************)
(* The operations a caller performs on handles, files and identities.      *)
(***************************************************************************)
St0 == [rt |-> res, log |-> <<>>]

\* the paths the caller opens
CallerPaths == {"a", "b", "missing"}

StdKinds == {"Stdin", "Stdout", "Stderr"}

StdFdOf(kind) ==
    CASE kind = "Stdin" -> 0
      [] kind = "Stdout" -> 1
      [] OTHER -> 2

Live(h) == handles[h].kind \in Kinds

\* the caller opens a File of its own
FileOpenOp(p) ==
    /\ FreeFds(res) # {}
    /\ LET x == FileOpen(platform, St0, p)
       IN  /\ res' = x.st.rt
           /\ log' = x.st.log
           /\ owned' = IF x.ok THEN owned \cup {x.r} ELSE owned
           /\ ret' = [NoRet EXCEPT !.op = "open", !.ok = x.ok]
    /\ UNCHANGED <<platform, handles, call, ids>>

\* the caller drops a File of its own
CloseOwned(r) ==
    /\ r \in owned
    /\ LET x == DropFile(St0, r)
       IN  /\ res' = x.rt
           /\ log' = x.log
    /\ owned' = owned \ {r}
    /\ ret' = [NoRet EXCEPT !.op = "close_owned", !.ok = TRUE]
    /\ UNCHANGED <<platform, handles, call, ids>>

\* lib.rs: FileId::from_file_like(&file) / FileId::from_raw(raw) on a File
\* of the caller
FromRawOp(r, qok) ==
    /\ r \in owned
    /\ LET x == from_raw(platform, St0, r, qok)
       IN  /\ res' = x.st.rt
           /\ log' = x.st.log
           /\ ret' = [NoRet EXCEPT !.op = "from_raw", !.r = r, !.ok = x.ok,
                                   !.err = x.err,
                                   !.id = IF x.ok THEN x.id ELSE NoRet.id]
    /\ UNCHANGED <<platform, handles, owned, call, ids>>

\* lib.rs: FileId::from_file_like(&std::io::stdin()), and of stdout, stderr
FromRawStd(kind, qok) ==
    /\ LET x == from_raw(platform, St0, StdFdOf(kind), qok)
       IN  /\ res' = x.st.rt
           /\ log' = x.st.log
           /\ ret' = [NoRet EXCEPT !.op = "from_raw", !.r = StdFdOf(kind),
                                   !.ok = x.ok, !.err = x.err,
                                   !.id = IF x.ok THEN x.id ELSE NoRet.id]
    /\ UNCHANGED <<platform, handles, owned, call, ids>>

\* lib.rs: Handle::from_path(p)
FromPath(h, p, qok) ==
    /\ handles[h] = NoHandle
    /\ FreeFds(res) # {}
    /\ LET x == from_path(platform, St0, p, qok)
       IN  /\ res' = x.st.rt
           /\ log' = x.st.log
           /\ handles' = [handles EXCEPT ![h] = x.h]
           /\ ret' = [NoRet EXCEPT !.op = "from_path", !.ok = x.ok,
                                   !.err = x.err]
    /\ UNCHANGED <<platform, owned, call, ids>>

\* lib.rs: Handle::from_file(file) / Handle::from_file_like(file)
FromFile(h, r, qok) ==
    /\ handles[h] = NoHandle
    /\ r \in owned
    /\ LET x == from_file_like(platform, St0, FileLike("File", r), qok)
       IN  /\ res' = x.st.rt
           /\ log' = x.st.log
           /\ handles' = [handles EXCEPT ![h] = x.h]
           /\ ret' = [NoRet EXCEPT !.op = "from_file", !.ok = x.ok,
                                   !.err = x.err]
    /\ owned' = owned \ {r}
    /\ UNCHANGED <<platform, call, ids>>

\* lib.rs: Handle::stdin() / stdout() / stderr()
StdHandle(h, kind, qok) ==
    /\ handles[h] = NoHandle
    /\ LET x == from_file_like(platform, St0, FileLike(kind, StdFdOf(kind)), qok)
       IN  /\ res' = x.st.rt
           /\ log' = x.st.log
           /\ handles' = [handles EXCEPT ![h] = x.h]
           /\ ret' = [NoRet EXCEPT !.op = "std", !.ok = x.ok, !.kind = kind,
                                   !.err = x.err]
    /\ UNCHANGED <<platform, owned, call, ids>>

\* an into_inner that hands the resource out and drops the Handle's copy
IntoInnerDropping(h) ==
    /\ Live(h)
    /\ LET x == DropHandle(St0, handles[h])
       IN  /\ res' = x.rt
           /\ log' = x.log
    /\ owned' = IF handles[h].kind = "File" THEN owned \cup {handles[h].r}
                ELSE owned
    /\ handles' = [handles EXCEPT ![h] = NoHandle]
    /\ ret' = [NoRet EXCEPT !.op = "into_inner", !.ok = TRUE,
                            !.kind = handles[h].kind, !.r = handles[h].r]
    /\ UNCHANGED <<platform, call, ids>>

\* lib.rs: Handle::into_inner(this)
IntoInner(h) ==
    /\ Live(h)
    /\ owned' = IF handles[h].kind = "File" THEN owned \cup {handles[h].r}
                ELSE owned
    /\ handles' = [handles EXCEPT ![h] = NoHandle]
    /\ log' = <<>>
    /\ ret' = [NoRet EXCEPT !.op = "into_inner", !.ok = TRUE,
                            !.kind = handles[h].kind, !.r = handles[h].r]
    /\ UNCHANGED <<platform, res, call, ids>>

\* lib.rs: Handle::id(this): this.identity.clone(), and this is dropped
\* when the function returns
Id(h) ==
    /\ Live(h)
    /\ LET x == DropHandle(St0, handles[h])
       IN  /\ res' = x.rt
           /\ log' = x.log
    /\ handles' = [handles EXCEPT ![h] = NoHandle]
    /\ ret' = [NoRet EXCEPT !.op = "id", !.ok = TRUE,
                            !.kind = handles[h].kind, !.r = handles[h].r,
                            !.id = handles[h].identity]
    /\ UNCHANGED <<platform, owned, call, ids>>

\* a Handle<F> goes out of scope
DropOp(h) ==
    /\ Live(h)
    /\ LET x == DropHandle(St0, handles[h])
       IN  /\ res' = x.rt
           /\ log' = x.log
    /\ handles' = [handles EXCEPT ![h] = NoHandle]
    /\ ret' = [NoRet EXCEPT !.op = "drop", !.ok = TRUE,
                            !.kind = handles[h].kind]
    /\ UNCHANGED <<platform, owned, call, ids>>

\* lib.rs: h1 == h2 and h1.partial_cmp(&h2)
CompareHandles(h1, h2) ==
    /\ Live(h1)
    /\ Live(h2)
    /\ log' = <<>>
    /\ ret' = [NoRet EXCEPT !.op = "cmp", !.h = h1, !.h2 = h2, !.ok = TRUE,
                            !.eq = HandleEq(platform, handles[h1], handles[h2]),
                            !.ord = HandleCmp(platform, handles[h1], handles[h2])]
    /\ UNCHANGED <<platform, res, handles, owned, call, ids>>

\* lib.rs: DerefMut, used to put another File in the place of the wrapped
\* one: std::mem::replace(&mut *h, file), the caller getting the old File
ReplaceThrough(h, r) ==
    /\ Live(h)
    /\ handles[h].kind = "File"
    /\ r \in owned
    /\ handles' = [handles EXCEPT ![h].r = r]
    /\ owned' = (owned \ {r}) \cup {handles[h].r}
    /\ log' = <<>>
    /\ ret' = [NoRet EXCEPT !.op = "replace", !.ok = TRUE]
    /\ UNCHANGED <<platform, res, call, ids>>

\* unix.rs: Handle::stdin() / stdout() / stderr()
ImpStd(h, fd, qok) ==
    /\ platform = "unix"
    /\ handles[h] = NoHandle
    /\ LET x == imp_from_std(St0, fd, qok)
       IN  /\ res' = x.st.rt
           /\ log' = x.st.log
           /\ handles' = [handles EXCEPT ![h] = x.h]
           /\ ret' = [NoRet EXCEPT !.op = "imp_std", !.ok = x.ok, !.r = fd]
    /\ UNCHANGED <<platform, owned, call, ids>>

\* unix.rs: Handle::from_file(file)
ImpFromFile(h, r, qok) ==
    /\ platform = "unix"
    /\ handles[h] = NoHandle
    /\ r \in owned
    /\ LET x == imp_from_file(St0, r, qok)
       IN  /\ res' = x.st.rt
           /\ log' = x.st.log
           /\ handles' = [handles EXCEPT ![h] = x.h]
           /\ ret' = [NoRet EXCEPT !.op = "imp_from_file", !.ok = x.ok,
                                   !.err = x.err]
    /\ owned' = owned \ {r}
    /\ UNCHANGED <<platform, call, ids>>

\* a unix.rs Handle goes out of scope
ImpDrop(h) ==
    /\ handles[h].kind = "Imp"
    /\ LET x == imp_drop(St0, handles[h])
       IN  /\ res' = x.rt
           /\ log' = x.log
    /\ handles' = [handles EXCEPT ![h] = NoHandle]
    /\ ret' = [NoRet EXCEPT !.op = "imp_drop",
                            !.ok = ~imp_drop_panics(handles[h]),
                            !.err = IF imp_drop_panics(handles[h])
                                    THEN Panic ELSE NoErr,
                            !.kind = IF handles[h].is_std THEN "Std" ELSE "File",
                            !.r = handles[h].r]
    /\ UNCHANGED <<platform, owned, call, ids>>

\* unix.rs: IntoRawFd for Handle: self.0.file.take().unwrap().into_raw_fd(),
\* and self, its file now None, is dropped when the function returns
ImpIntoRawFd(h) ==
    /\ handles[h].kind = "Imp"
    /\ LET taken == [handles[h] EXCEPT !.r = -1]
           x == imp_drop(St0, taken)
           fd == handles[h].r
       IN  /\ res' = x.rt
           /\ log' = x.log
           /\ owned' = IF fd \in StdFds \/ fd = -1 THEN owned
                        ELSE owned \cup {fd}
           /\ ret' = [NoRet EXCEPT
                         !.op = "imp_into_raw_fd", !.r = fd,
                         !.kind = IF handles[h].is_std THEN "Std" ELSE "File",
                         !.ok = ~(fd = -1 \/ imp_drop_panics(taken)),
                         !.err = IF fd = -1 \/ imp_drop_panics(taken)
                                 THEN Panic ELSE NoErr]
    /\ handles' = [handles EXCEPT ![h] = NoHandle]
    /\ UNCHANGED <<platform, call, ids>>

\* unix.rs: as_raw_fd / as_file / as_file_mut: self.file.as_ref().unwrap()
ImpAsFile(h) ==
    /\ handles[h].kind = "Imp"
    /\ log' = <<>>
    /\ ret' = [NoRet EXCEPT
                  !.op = "imp_as_file", !.r = handles[h].r,
                  !.kind = IF handles[h].is_std THEN "Std" ELSE "File",
                  !.ok = handles[h].r # -1,
                  !.err = IF handles[h].r = -1 THEN Panic ELSE NoErr]
    /\ UNCHANGED <<platform, res, handles, owned, call, ids>>

\* unix.rs: Handle::id(&self)
ImpId(h) ==
    /\ handles[h].kind = "Imp"
    /\ log' = <<>>
    /\ ret' = [NoRet EXCEPT !.op = "imp_id", !.h = h, !.ok = TRUE,
                            !.r = handles[h].r, !.id = handles[h].identity]
    /\ UNCHANGED <<platform, res, handles, owned, call, ids>>

InitHandle == InitCommon /\ ids = NoIds

NextHandle ==
    \/ \E p \in CallerPaths : FileOpenOp(p)
    \/ \E r \in Fds : CloseOwned(r)
    \/ \E r \in Fds, qok \in BOOLEAN : FromRawOp(r, qok)
    \/ \E h \in HandleIds, p \in CallerPaths, qok \in BOOLEAN : FromPath(h, p, qok)
    \/ \E h \in HandleIds, r \in Fds, qok \in BOOLEAN : FromFile(h, r, qok)
    \/ \E h \in HandleIds, k \in StdKinds, qok \in BOOLEAN : StdHandle(h, k, qok)
    \/ \E h \in HandleIds : IntoInner(h)
    \/ \E h \in HandleIds : Id(h)
    \/ \E h \in HandleIds : DropOp(h)
    \/ \E h1, h2 \in HandleIds : CompareHandles(h1, h2)
    \/ \E h \in HandleIds, r \in Fds : ReplaceThrough(h, r)

SpecHandle == InitHandle /\ [][NextHandle]_vars

\* the standard-stream handles of lib.rs and of unix.rs
InitStd == InitCommon /\ ids = NoIds

NextStd ==
    \/ \E h \in HandleIds, k \in StdKinds, qok \in BOOLEAN : StdHandle(h, k, qok)
    \/ \E h \in HandleIds : DropOp(h)
    \/ \E h \in HandleIds : IntoInner(h)
    \/ \E h1, h2 \in HandleIds : CompareHandles(h1, h2)
    \/ \E h \in HandleIds, fd \in StdFds, qok \in BOOLEAN : ImpStd(h, fd, qok)
    \/ \E h \in HandleIds : ImpDrop(h)
    \/ \E k \in StdKinds, qok \in BOOLEAN : FromRawStd(k, qok)

SpecStd == InitStd /\ [][NextStd]_vars

\* the Handle of unix.rs
InitImp == InitCommon /\ platform = "unix" /\ ids = NoIds

NextImp ==
    \/ \E p \in CallerPaths : FileOpenOp(p)
    \/ \E r \in Fds : CloseOwned(r)
    \/ \E h \in HandleIds, r \in Fds, qok \in BOOLEAN : ImpFromFile(h, r, qok)
    \/ \E h \in HandleIds, fd \in StdFds : ImpStd(h, fd, TRUE)
    \/ \E h \in HandleIds : ImpIntoRawFd(h)
    \/ \E h \in HandleIds : ImpAsFile(h)
    \/ \E h \in HandleIds : ImpId(h)
    \/ \E h \in HandleIds : ImpDrop(h)

\* Handles on files, of lib.rs and of unix.rs: built, taken apart, dropped
InitFile == InitCommon /\ ids = NoIds

NextFile ==
    \/ \E p \in CallerPaths : FileOpenOp(p)
    \/ \E r \in Fds : CloseOwned(r)
    \/ \E h \in HandleIds, r \in Fds, qok \in BOOLEAN : FromFile(h, r, qok)
    \/ \E h \in HandleIds, k \in StdKinds, qok \in BOOLEAN : StdHandle(h, k, qok)
    \/ \E h \in HandleIds : IntoInner(h)
    \/ \E h \in HandleIds : DropOp(h)
    \/ \E h \in HandleIds, r \in Fds, qok \in BOOLEAN : ImpFromFile(h, r, qok)
    \/ \E h \in HandleIds : ImpIntoRawFd(h)
    \/ \E h \in HandleIds : ImpDrop(h)

SpecFile == InitFile /\ [][NextFile]_vars

SpecImp == InitImp /\ [][NextImp]_vars


(***************************************************************************)
(* Properties of is_same_file, read off the log of the call.               *)
(***************************************************************************)
Failed(l) == {i \in 1..Len(l) : l[i].err # NoErr}

Opens(l) == {i \in 1..Len(l) : l[i].op = "open"}

Closes(l, r) == {i \in 1..Len(l) : l[i].op = "close" /\ l[i].r = r}

OpenedOk(l, r) == {i \in Opens(l) : l[i].err = NoErr /\ l[i].r = r}

Queries(l, op, r) == {i \in 1..Len(l) : l[i].op = op /\ l[i].r = r}

\* both Open steps (open and identity extraction) of the call succeeded
BothOpened ==
    /\ Cardinality({i \in Opens(log) : log[i].err = NoErr}) = 2
    /\ Failed(log) = {}

\* C1: when both paths open successfully (each Open step returns a Handle)
\* and resolve to the same file, is_same_file returns Ok(true).
C1_SameFileIsTrue ==
    (call.pc = "done" /\ BothOpened /\ Resolve(call.p1) = Resolve(call.p2))
        => call.result = Ok(TRUE)

\* a file and a hard link to it were compared
C1_Witness ==
    /\ call.pc = "done"
    /\ call.p1 = "a"
    /\ call.p2 = "alink"
    /\ BothOpened
    /\ call.result = Ok(TRUE)

C3_OpenOpenCompare ==
    call.pc # "idle" =>
        /\ Cardinality(Opens(log)) <= 2
        /\ Cardinality(Failed(log)) <= 1
        /\ Len(log) >= 1 => (log[1].op = "open" /\ log[1].path = call.p1)
        /\ \A i \in Opens(log) :
              i > 1 => /\ log[i].path = call.p2
                       /\ \A j \in 1..(i - 1) : log[j].err = NoErr
                       /\ \E j \in 2..(i - 1) :
                             log[j].op \notin {"open", "close", "eq"}
                             /\ log[j].r = log[1].r
        /\ \A i \in Failed(log) :
              \A j \in (i + 1)..Len(log) : log[j].op = "close"
        /\ \A i \in 1..Len(log) :
              log[i].op = "eq" =>
                  /\ Cardinality({j \in Opens(log) : j < i}) = 2
                  /\ Failed(log) = {}
        /\ \A r \in Fds : \A op \in OsCalls \ {"open", "close"} :
              Cardinality(Queries(log, op, r)) <= 1
        /\ call.pc = "done" =>
              /\ Failed(log) = {} => call.result.ok
              /\ \A i \in Failed(log) : call.result = Err(log[i].err)

\* path1 failed to open, and path2, which would have opened, was not touched
C3_Witness ==
    /\ call.pc = "done"
    /\ call.p1 = "missing"
    /\ call.p2 = "a"
    /\ Len(log) = 1
    /\ call.result = Err(OsErr("NotFound", "missing"))

\* C4: when is_same_file has returned, every resource it opened has been
\* closed, exactly once; no resource is ever closed twice.
C4_ReleasedOnReturn ==
    /\ \A r \in Fds : res[r].closes <= 1
    /\ call.pc = "done" =>
          /\ \A r \in Fds \ StdFds : ~res[r].open
          /\ \A r \in Fds :
                Cardinality(Closes(log, r)) = Cardinality(OpenedOk(log, r))

\* path1 was opened, path2 failed, and path1's resource was closed
C4_Witness ==
    /\ call.pc = "done"
    /\ call.p1 = "a"
    /\ call.p2 = "missing"
    /\ ~call.result.ok
    /\ Len(log) >= 1
    /\ log[1].err = NoErr
    /\ Cardinality(Closes(log, log[1].r)) = 1
    /\ ~res[log[1].r].open

(***************************************************************************)
(* Identity values as data: three identities are drawn and every pair of   *)
(* them is compared with == and with cmp.                                  *)
(***************************************************************************)
AllIds(plat) ==
    IF plat = "unix"
    THEN [dev : 0..MaxDev, ino : 0..MaxIno]
    ELSE [VolumeSerialNumber : 0..MaxDev, Identifier : [1..IdLen -> ByteVals]]

Three == 1..3

\* a unix.rs Handle that stores the i-th identity, each on a descriptor of
\* its own
HandleOf(i) == ImpHandle(2 + i, ids[i], FALSE)

\* a == b, a.cmp(&b) for every pair of the drawn identities and the hash of
\* each; on Unix also == and the hash of the unix.rs Handles that store them
CompareIds ==
    /\ ids # NoIds
    /\ ret.op # "ord"
    /\ ret' = [op |-> "ord",
               eq |-> [i \in Three |-> [j \in Three |->
                          FileIdEq(platform, ids[i], ids[j])]],
               cmp |-> [i \in Three |-> [j \in Three |->
                          FileIdCmp(platform, ids[i], ids[j])]],
               hash |-> [i \in Three |-> FileIdHash(platform, ids[i])],
               heq |-> [i \in Three |-> [j \in Three |->
                          IF platform = "unix"
                          THEN imp_eq(HandleOf(i), HandleOf(j))
                          ELSE FALSE]],
               hhash |-> [i \in Three |->
                          IF platform = "unix" THEN imp_hash(HandleOf(i))
                          ELSE -1]]
    /\ UNCHANGED <<platform, res, handles, owned, log, call, ids>>

\* another identity is drawn in place of one of the three
DrawId(i, a) ==
    /\ ret.op = "ord"
    /\ ids' = [ids EXCEPT ![i] = a]
    /\ ret' = NoRet
    /\ UNCHANGED <<platform, res, handles, owned, log, call>>

InitOrd ==
    /\ InitCommon
    /\ ids \in {<<a, b, c>> : a \in AllIds(platform), b \in AllIds(platform),
                              c \in AllIds(platform)}

NextOrd ==
    \/ CompareIds
    \/ \E i \in Three, a \in AllIds(platform) : DrawId(i, a)

SpecOrd == InitOrd /\ [][NextOrd]_vars

\* the primary key of an identity: the device, or the volume serial number
Primary(x) == IF platform = "unix" THEN x.dev ELSE x.VolumeSerialNumber

\* the order of the secondary key: the inode number, or the identifier's
\* bytes, the first byte that differs deciding
SecondaryLess(x, y) ==
    IF platform = "unix" THEN x.ino < y.ino
    ELSE \E k \in 1..IdLen :
            /\ x.Identifier[k] < y.Identifier[k]
            /\ \A j \in 1..(k - 1) : x.Identifier[j] = y.Identifier[j]

SameFields(x, y) ==
    IF platform = "unix" THEN x.dev = y.dev /\ x.ino = y.ino
    ELSE /\ x.VolumeSerialNumber = y.VolumeSerialNumber
         /\ x.Identifier = y.Identifier

\* C9: the ordering of identities is a strict total order, lexicographic on
\* (device or volume, inode or file index): exactly one of a < b, a == b,
\* b < a; a <= b and b <= c give a <= c; a smaller device decides.
C9_LexicographicTotalOrder ==
    ret.op = "ord" =>
        \A i \in Three, j \in Three :
            LET lt(x, y) == ret.cmp[x][y] = "Less"
                le(x, y) == ret.cmp[x][y] # "Greater"
            IN  /\ ret.cmp[i][j] \in {"Less", "Equal", "Greater"}
                /\ Cardinality({k \in 1..3 :
                       \/ k = 1 /\ lt(i, j)
                       \/ k = 2 /\ ret.eq[i][j]
                       \/ k = 3 /\ lt(j, i)}) = 1
                /\ \A m \in Three : (le(i, j) /\ le(j, m)) => le(i, m)
                /\ Primary(ids[i]) < Primary(ids[j]) => lt(i, j)
                /\ lt(i, j) <=>
                      \/ Primary(ids[i]) < Primary(ids[j])
                      \/ /\ Primary(ids[i]) = Primary(ids[j])
                         /\ SecondaryLess(ids[i], ids[j])

\* a smaller device with a larger inode was compared and came first
C9_Witness ==
    /\ ret.op = "ord"
    /\ Primary(ids[1]) < Primary(ids[2])
    /\ SecondaryLess(ids[2], ids[1])
    /\ ret.cmp[1][2] = "Less"
    /\ ret.cmp[2][1] = "Greater"
    /\ ret.cmp[2][3] = "Less"

\* C10: two identities are equal exactly when all their fields are equal,
\* and exactly when cmp answers Equal.
C10_EqualIffSameFields ==
    ret.op = "ord" =>
        \A i \in Three, j \in Three :
            /\ ret.eq[i][j] <=> SameFields(ids[i], ids[j])
            /\ ret.eq[i][j] <=> ret.cmp[i][j] = "Equal"

\* identities that differ in the volume alone were found unequal, and two
\* identities with the same fields equal
C10_Witness ==
    /\ ret.op = "ord"
    /\ platform = "windows"
    /\ ids[1].Identifier = ids[2].Identifier
    /\ ids[1].VolumeSerialNumber # ids[2].VolumeSerialNumber
    /\ ~ret.eq[1][2]
    /\ SameFields(ids[2], ids[3])
    /\ ret.eq[2][3]

\* C11: hashing is consistent with equality: identities that compare equal
\* hash to the same value, and so do Handles that compare equal; identities
\* with the same fields have the same hash.
C11_HashConsistentWithEq ==
    ret.op = "ord" =>
        \A i \in Three, j \in Three :
            /\ ret.eq[i][j] => ret.hash[i] = ret.hash[j]
            /\ SameFields(ids[i], ids[j]) => ret.hash[i] = ret.hash[j]
            /\ ret.heq[i][j] => ret.hhash[i] = ret.hhash[j]

\* two equal identities, and two equal Handles on different descriptors,
\* were hashed to one value, and a third, unequal one to another
C11_Witness ==
    /\ ret.op = "ord"
    /\ platform = "unix"
    /\ ret.eq[1][2]
    /\ ret.heq[1][2]
    /\ HandleOf(1).r # HandleOf(2).r
    /\ ret.hash[1] = ret.hash[2]
    /\ ret.hhash[1] = ret.hhash[2]
    /\ ~ret.eq[1][3]
    /\ ret.hash[1] # ret.hash[3]

(***************************************************************************)
(* Properties of handles.                                                  *)
(***************************************************************************)
\* C5: the identity a Handle built from an owned resource stores is the
\* identity of the resource it wraps, and that resource is open, whatever
\* was done through the Handle, mutable access to the resource included.
C5_IdentityAccurate ==
    \A h \in HandleIds :
        Live(h) =>
            /\ res[handles[h].r].open
            /\ handles[h].identity =
                  IdentityOf(platform, res[handles[h].r].file)

ExpectedOrd(x, y) ==
    IF \/ Primary(x) < Primary(y)
       \/ Primary(x) = Primary(y) /\ SecondaryLess(x, y)
    THEN "Less"
    ELSE IF SameFields(x, y) THEN "Equal" ELSE "Greater"

\* C6: == and the ordering of two Handles, of any resource types, answer
\* what the comparison of the stored identities answers; the comparison
\* changes no resource and no Handle, issues no OS call and does not fail.
C6_CompareReadsIdentitiesOnly ==
    [][ret'.op = "cmp" =>
          /\ res' = res
          /\ handles' = handles
          /\ owned' = owned
          /\ \A i \in 1..Len(log') : log'[i].op \notin OsCalls
          /\ ret'.ok
          /\ ret'.eq = SameFields(handles[ret'.h].identity,
                                  handles[ret'.h2].identity)
          /\ ret'.ord = ExpectedOrd(handles[ret'.h].identity,
                                    handles[ret'.h2].identity)]_vars

\* a Handle<File> on b equals the Handle<Stderr> of a stderr redirected to b
C6_Witness ==
    /\ ret.op = "cmp"
    /\ handles[ret.h].kind = "File"
    /\ handles[ret.h2].kind = "Stderr"
    /\ ret.eq
    /\ ret.ord = "Equal"

AllStdOpen(rt) == \A fd \in StdFds : rt[fd].open

C8_ExtractionLeavesResource ==
    /\ [](\A r \in Fds :
             /\ res[r].closes <= 1
             /\ r \in owned => (res[r].open /\ res[r].closes = 0))
    /\ [][ret'.op = "from_raw" =>
             /\ res' = res
             /\ owned' = owned
             /\ handles' = handles
             /\ \A i \in 1..Len(log') : log'[i].op \notin {"open", "close"}
             /\ res'[ret'.r].open]_vars

\* the metadata query failed on a descriptor of the caller, which is open
C8_Witness ==
    /\ ret.op = "from_raw"
    /\ ~ret.ok
    /\ platform = "unix"
    /\ ret.r \in owned
    /\ res[ret.r].open
    /\ res[ret.r].closes = 0

(***************************************************************************)
(* Construction, taking apart and reading of handles.                      *)
(***************************************************************************)
QueryOps == {"fstat", "GetFileType", "GetFileInformationByHandleEx"}

\* the positions of the identity queries in a log, and of those that failed
QueryAt(l) == {i \in 1..Len(l) : l[i].op \in QueryOps}

FailedAt(l) == {i \in QueryAt(l) : l[i].err # NoErr}

\* the resource a construction step was given
GivenTo(o, od, rt) ==
    IF rt.op = "std" THEN StdFdOf(rt.kind) ELSE CHOOSE r \in o \ od : TRUE

\* C12: from_file_like (and from_file of unix.rs) returns Err exactly when
\* the identity extraction fails, with the extractor's error as it is and
\* after one attempt, leaving no Handle; when the extraction succeeds the
\* new Handle holds the resource given and the identity extracted from it.
C12_ConstructionFailsIffExtractionFails ==
    [][ret'.op \in {"from_file", "std", "imp_from_file"} =>
          LET r == GivenTo(owned, owned', ret')
              q == QueryAt(log')
              f == FailedAt(log')
          IN  /\ ret'.ok <=> f = {}
              /\ \A i \in q : log'[i].r = r
              /\ \A i \in q, j \in q : log'[i].op = log'[j].op => i = j
              /\ ~ret'.ok =>
                    /\ \E i \in f : /\ f = {i}
                                    /\ ret'.err = log'[i].err
                                    /\ \A j \in q : j <= i
                    /\ handles' = handles
              /\ ret'.ok =>
                    /\ ret'.err = NoErr
                    /\ res'[r] = res[r]
                    /\ res'[r].open
                    /\ \E h \in HandleIds :
                          /\ handles[h] = NoHandle
                          /\ handles' = [handles EXCEPT ![h] = handles'[h]]
                          /\ handles'[h].r = r
                          /\ handles'[h].kind =
                                IF ret'.op = "std" THEN ret'.kind
                                ELSE IF ret'.op = "from_file" THEN "File"
                                ELSE "Imp"
                          /\ handles'[h].identity =
                                IdentityOf(platform, res[r].file)]_vars

\* the type check of Windows rejected stdin, a terminal: the InvalidData
\* error came back and no Handle was made
C12_Witness ==
    /\ ret.op = "std"
    /\ ret.kind = "Stdin"
    /\ platform = "windows"
    /\ ~ret.ok
    /\ ret.err = OsErr("InvalidData", "FILE_TYPE_CHAR")
    /\ \A h \in HandleIds : handles[h] = NoHandle
    /\ Len(log) = 1

\* the descriptors that Handles own
HeldBy(hs) ==
    {hs[h].r : h \in {g \in HandleIds : hs[g].kind \in {"File", "Imp"}}}

\* C13: into_inner (and into_raw_fd of unix.rs on a file) consumes the
\* Handle and returns the resource it wrapped, open: the step closes
\* nothing, the caller is the only owner afterwards, and no resource is
\* closed twice.
C13_IntoInnerReturnsResourceOpen ==
    /\ [](\A r \in Fds :
             /\ res[r].closes <= 1
             /\ r \in owned => (res[r].open /\ r \notin HeldBy(handles)))
    /\ [][ret'.op \in {"into_inner", "imp_into_raw_fd"} =>
             \E h \in HandleIds :
                 /\ handles[h].kind \in Kinds \cup {"Imp"}
                 /\ handles' = [handles EXCEPT ![h] = NoHandle]
                 /\ ret'.r = handles[h].r
                 /\ ret'.ok
                 /\ res' = res
                 /\ res'[ret'.r].open
                 /\ \A i \in 1..Len(log') : log'[i].op \notin OsCalls
                 /\ ret'.r \notin HeldBy(handles')
                 /\ handles[h].kind \in {"File", "Imp"} =>
                       /\ ret'.r \notin owned
                       /\ owned' = owned \cup {ret'.r}]_vars

\* a File went into a Handle<File> and came out of it open and unclosed,
\* owned by the caller alone
C13_Witness ==
    /\ ret.op = "into_inner"
    /\ ret.kind = "File"
    /\ ret.r \in owned
    /\ res[ret.r].open
    /\ res[ret.r].closes = 0
    /\ ret.r \notin HeldBy(handles)

\* C14: no unwrap of the file field of a unix.rs Handle panics, whatever
\* operations were applied to a Handle that was constructed successfully.
C14_NoUnwrapPanics == ret.err # Panic

\* C15: on Windows the extraction asks for the type of the handle first; a
\* handle that is not a disk file gets InvalidData naming its type and no
\* identifier query; a disk file gets one identifier query, whose error is
\* returned if it fails and whose answer is the identity otherwise.
C15_WindowsTypeCheckFirst ==
    (platform = "windows" /\ ret.op = "from_raw") =>
        LET ft == FileType(res[ret.r].file)
        IN  /\ Len(log) >= 1
            /\ log[1].op = "GetFileType"
            /\ log[1].r = ret.r
            /\ ft # "FILE_TYPE_DISK" =>
                  /\ Len(log) = 1
                  /\ ~ret.ok
                  /\ ret.err = OsErr("InvalidData", ft)
                  /\ ret.id = NoRet.id
            /\ ft = "FILE_TYPE_DISK" =>
                  /\ Len(log) = 2
                  /\ log[2].op = "GetFileInformationByHandleEx"
                  /\ log[2].r = ret.r
                  /\ log[2].err # NoErr =>
                        (~ret.ok /\ ret.err = log[2].err /\ ret.id = NoRet.id)
                  /\ log[2].err = NoErr =>
                        /\ ret.ok
                        /\ ret.id = WinIdOf(res[ret.r].file)

\* stdin, a terminal, was refused on its type alone, without a query
C15_Witness ==
    /\ platform = "windows"
    /\ ret.op = "from_raw"
    /\ ret.r = 0
    /\ ~ret.ok
    /\ ret.err = OsErr("InvalidData", "FILE_TYPE_CHAR")
    /\ Len(log) = 1
    /\ log[1].op = "GetFileType"

\* C16: Handle::id returns the identity stored at construction and leaves
\* the Handle alive and its resource open, so that it can be called again.
C16_IdKeepsHandle ==
    [][ret'.op = "id" =>
          /\ handles' = handles
          /\ res' = res
          /\ res'[ret'.r].open
          /\ \E h \in HandleIds :
                /\ Live(h)
                /\ handles[h].r = ret'.r
                /\ ret'.id = handles[h].identity]_vars

====
